---------------------------- MODULE Spec2Model ----------------------------
(***************************************************************************)
(* Model of python_scripts/parameter_tuning_grid_search.py: the exhaustive *)
(* hyperparameter search the notebook runs with                            *)
(*     GridSearchCV(model, param_grid=param_grid, n_jobs=2, cv=2).fit(..)  *)
(* and the result table it builds from cv_results_.                        *)
(*                                                                         *)
(* The notebook pins scikit-learn to the 0.24 series (it needs             *)
(* sklearn.experimental.enable_hist_gradient_boosting and                  *)
(* OrdinalEncoder(handle_unknown="use_encoded_value")), so the call is     *)
(* modelled with that release's behaviour and the defaults the notebook    *)
(* leaves in place: refit=True, error_score=nan, a stratified k-fold split *)
(* without shuffling for a classifier, candidates enumerated by            *)
(* ParameterGrid, evaluations run by a joblib pool of n_jobs workers.      *)
(*                                                                         *)
(* Abstractions.                                                           *)
(*  - A parameter grid is the sequence of its candidate-value sequences,   *)
(*    in sorted key order (the order ParameterGrid iterates in); the two   *)
(*    keys of the notebook sort in the order they are written.             *)
(*  - The predictor is an oracle: the outcome of fitting and scoring       *)
(*    candidate c on fold f is oracle[(c-1)*n_splits + f], a score or NaN  *)
(*    for a fit that raised (error_score=nan).  random_state=42 makes the  *)
(*    predictor a function of its inputs, so the oracle is fixed per run.  *)
(*  - Scores are small naturals; a candidate's mean is kept as the sum of  *)
(*    its fold scores (the mean times n_splits), which orders and ties     *)
(*    candidates exactly as the mean does.  The standard deviation is not  *)
(*    modelled.                                                            *)
(***************************************************************************)
EXTENDS Integers, Sequences, FiniteSets, TLC

\* ------------------------------------------------------------------ bounds
MaxParams == 2
MaxVals == 2
MaxTasks == 4
MaxCv == 3
MaxSamples == 2
MaxScore == 1
MaxSplitSamples == 5
MaxSplitCv == 4
MaxRankCand == 3
MaxRankScore == 1
NotebookModulus == 11

\* --------------------------------------------------- constants of the code
n_jobs == 2
cv_notebook == 2

\* A fold outcome or a mean is <<s>> for the number s, and NaN for not-a-number.
NaN == <<>>

Num(s) == <<s>>

IsNaN(x) == x = NaN

\* param_grid of the notebook: learning rates (in hundredths) and leaf counts.
param_grid_notebook == << <<5, 10, 50, 100, 500>>, <<3, 10, 30, 100>> >>

\* ------------------------------------------------------------ ParameterGrid
RECURSIVE ProductLen(_)
\* len(ParameterGrid(grid)): the product of the value-sequence lengths, 1 for {}.
ProductLen(grid) ==
    IF grid = <<>> THEN 1 ELSE Len(Head(grid)) * ProductLen(Tail(grid))

\* Candidates built by pairing the i-th values of the parameters (zip) instead
\* of crossing them (product).
ParameterGridZip(grid) ==
    IF grid = <<>> THEN << <<>> >>
    ELSE LET shortest == CHOOSE n \in {Len(grid[p]) : p \in DOMAIN grid} :
                             \A q \in DOMAIN grid : n <= Len(grid[q])
         IN  [i \in 1..shortest |-> [p \in DOMAIN grid |-> grid[p][i]]]

RECURSIVE ParameterGrid(_)
\* list(ParameterGrid(grid)): itertools.product over the value sequences, the
\* last parameter varying fastest; the empty mapping yields the one candidate {}.
ParameterGrid(grid) ==
    IF grid = <<>> THEN << <<>> >>
    ELSE LET rest == ParameterGrid(Tail(grid))
             vals == Head(grid)
         IN  [i \in 1..(Len(vals) * Len(rest)) |->
                <<vals[((i - 1) \div Len(rest)) + 1]>> \o rest[((i - 1) % Len(rest)) + 1]]

\* _check_param_grid: a parameter with an empty value sequence is rejected.
BadParamGrid(grid) == \E p \in DOMAIN grid : Len(grid[p]) = 0

\* ----------------------------------------------------------- StratifiedKFold
\* Classes encoded by order of first appearance: 1 for the first label seen.
ClassesOf(y) == {y[i] : i \in DOMAIN y}

FirstAt(y, c) == CHOOSE i \in DOMAIN y : y[i] = c /\ \A j \in 1..(i - 1) : y[j] # c

Encode(y, c) == Cardinality({d \in ClassesOf(y) : FirstAt(y, d) <= FirstAt(y, c)})

CountOf(y, c) == Cardinality({i \in DOMAIN y : y[i] = c})

\* Number of samples of encoded classes below k: the offset of class k in sort(y_encoded).
OffsetOf(y, c) ==
    Cardinality({i \in DOMAIN y : Encode(y, y[i]) < Encode(y, c)})

\* allocation[f][c]: how many of y_order[f::n_splits] (0-based f) belong to class c.
Allocation(y, n_splits, f, c) ==
    Cardinality({p \in OffsetOf(y, c)..(OffsetOf(y, c) + CountOf(y, c) - 1) :
                    p % n_splits = f})

\* Position (0-based) of sample i among the samples of its own class.
PosInClass(y, i) == Cardinality({j \in 1..(i - 1) : y[j] = y[i]})

\* folds_for_class = arange(n_splits).repeat(allocation[:, c]): the fold of the
\* q-th sample of class c is the first fold whose cumulative allocation exceeds q.
RECURSIVE CumAlloc(_, _, _, _)
CumAlloc(y, n_splits, f, c) ==
    IF f < 0 THEN 0
    ELSE Allocation(y, n_splits, f, c) + CumAlloc(y, n_splits, f - 1, c)

FoldForClass(y, n_splits, c, q) ==
    CHOOSE f \in 0..(n_splits - 1) :
        /\ q < CumAlloc(y, n_splits, f, c)
        /\ q >= CumAlloc(y, n_splits, f - 1, c)

\* _make_test_folds: test_folds[i], the (0-based) fold whose test set holds sample i.
MakeTestFolds(y, n_splits) ==
    [i \in DOMAIN y |-> FoldForClass(y, n_splits, y[i], PosInClass(y, i))]

\* Every fold trained on the whole training set, its own test samples included.
TrainIndexAll(n_samples, test) == 1..n_samples

\* The train indices of a fold: indices[np.logical_not(test_mask)].
TrainIndex(n_samples, test) == (1..n_samples) \ test

\* cv.split(X, y): one (train, test) pair per fold, in fold order.
Split(y, n_splits) ==
    LET tf == MakeTestFolds(y, n_splits)
    IN  [f \in 1..n_splits |->
          LET test == {i \in DOMAIN y : tf[i] = f - 1}
          IN  [train |-> TrainIndex(Len(y), test), test |-> test]]

\* The check of the fold count off by one: a single fold is let through.
BadNSplitsBelowOne(n_splits) == n_splits < 1

\* _BaseKFold.__init__ rejects n_splits <= 1 (raised by check_cv inside fit).
BadNSplits(n_splits) == n_splits <= 1

\* _BaseKFold.split / _make_test_folds reject n_splits above the sample count,
\* and above the member count of every class.
BadSplit(y, n_splits) ==
    \/ n_splits > Len(y)
    \/ \A c \in ClassesOf(y) : n_splits > CountOf(y, c)

Labelings(n) == UNION {[1..m -> {0, 1}] : m \in 1..n}

\* --------------------------------------------------------- _format_results
RECURSIVE SumSeq(_)
SumSeq(s) == IF s = <<>> THEN 0 ELSE Head(s)[1] + SumSeq(Tail(s))

\* array.reshape(n_candidates, n_splits): row c of the flat list of fold outcomes.
RowOf(flat, n_splits, c) ==
    [f \in 1..n_splits |-> flat[(c - 1) * n_splits + f]]

\* np.average over a row: NaN as soon as one fold outcome is NaN.
MeanOf(row) ==
    IF \E f \in DOMAIN row : IsNaN(row[f]) THEN NaN ELSE Num(SumSeq(row))

\* a > b on floats: false whenever one side is NaN.
Greater(a, b) == ~IsNaN(a) /\ ~IsNaN(b) /\ a[1] > b[1]

\* a >= b on floats: false whenever one side is NaN.
GreaterEq(a, b) == ~IsNaN(a) /\ ~IsNaN(b) /\ a[1] >= b[1]

\* a == b on floats: NaN is equal to nothing, itself included.
FloatEq(a, b) == ~IsNaN(a) /\ ~IsNaN(b) /\ a[1] = b[1]

\* rankdata(-means, method='max'): tied means share the largest rank of their group.
RankMax(means, c) ==
    IF ~IsNaN(means[c])
    THEN Cardinality({d \in DOMAIN means : GreaterEq(means[d], means[c])})
    ELSE Cardinality({d \in DOMAIN means : ~IsNaN(means[d])})
         + Cardinality({d \in 1..c : IsNaN(means[d])})

\* rankdata(-means, method='min'): a number ranks one past the count of strictly
\* larger means, so equal means share a rank; NaN sorts after every number and
\* each NaN takes a rank of its own.
RankMin(means, c) ==
    IF ~IsNaN(means[c])
    THEN 1 + Cardinality({d \in DOMAIN means : Greater(means[d], means[c])})
    ELSE Cardinality({d \in DOMAIN means : ~IsNaN(means[d])})
         + Cardinality({d \in 1..c : IsNaN(means[d])})

FormatResults(cands, n_splits, flat) ==
    LET means == [c \in DOMAIN cands |-> MeanOf(RowOf(flat, n_splits, c))]
    IN  [c \in DOMAIN cands |->
          [params           |-> cands[c],
           split_test_score |-> RowOf(flat, n_splits, c),
           mean_test_score  |-> means[c],
           rank_test_score  |-> RankMin(means, c)]]

\* The last index holding the least rank, instead of the first.
BestIndexLast(res) ==
    CHOOSE c \in DOMAIN res :
        /\ \A d \in DOMAIN res : res[c].rank_test_score <= res[d].rank_test_score
        /\ \A d \in (c + 1)..Len(res) : res[d].rank_test_score # res[c].rank_test_score

\* results["rank_test_score"].argmin(): the first index holding the least rank.
BestIndex(res) ==
    CHOOSE c \in DOMAIN res :
        /\ \A d \in DOMAIN res : res[c].rank_test_score <= res[d].rank_test_score
        /\ \A d \in 1..(c - 1) : res[d].rank_test_score # res[c].rank_test_score

\* ------------------------------------------------- DataFrame.sort_values
\* Row a may stand before row b when sorting by mean_test_score, descending,
\* NaN last; the default sort is not stable, so equal means come in any order.
MayPrecede(res, a, b) ==
    \/ IsNaN(res[b].mean_test_score)
    \/ GreaterEq(res[a].mean_test_score, res[b].mean_test_score)

RECURSIVE SortedOrders(_, _)
\* Every row order sort_values("mean_test_score", ascending=False) may produce.
SortedOrders(res, rows) ==
    IF rows = {} THEN {<<>>}
    ELSE UNION {{<<a>> \o s : s \in SortedOrders(res, rows \ {a})} :
                  a \in {r \in rows : \A b \in rows : MayPrecede(res, r, b)}}

\* ======================================================================
\* State
\* ======================================================================
VARIABLES
    param_grid,    \* input: the grid handed to GridSearchCV
    cv,            \* input: the fold count handed to GridSearchCV
    y,             \* input: the training labels handed to fit
    oracle,        \* input: outcome of every (candidate, fold) fit-and-score
    refit_ok,      \* input: whether fitting the winner on all the data succeeds
    pc,            \* position of the script
    raised,        \* the exception that ended the script, "none" if none
    candidates,    \* candidate_params
    folds,         \* list(cv.split(X, y))
    next_task,     \* next task of product(candidates, folds) to dispatch
    running,       \* tasks a worker is executing
    jobs,          \* dispatched tasks not yet retrieved, in dispatch order
    future,        \* outcome of every finished, unretrieved task
    out,           \* the list Parallel returns, as retrieved so far
    n_fit,         \* number of estimator.fit calls made
    results,       \* the dict _format_results built
    best_index_,   \* 0 until set
    cv_results_,   \* <<>> until fit stores it
    table,         \* row order of the sorted DataFrame, <<>> until built
    run,           \* which invocation of the search this is
    first          \* what the first invocation ended with

inputs == <<param_grid, cv, y, oracle, refit_ok>>

search == <<pc, raised, candidates, folds, next_task, running, jobs, future,
            out, n_fit, results, best_index_, cv_results_, table>>

vars == <<inputs, search, run, first>>

NTasks == Len(candidates) * Len(folds)

\* Task t of product(enumerate(candidate_params), enumerate(cv.split(..))).
CandOf(t) == ((t - 1) \div Len(folds)) + 1

FoldOf(t) == ((t - 1) % Len(folds)) + 1

Fresh ==
    /\ pc = "start"
    /\ raised = "none"
    /\ candidates = <<>>
    /\ folds = <<>>
    /\ next_task = 1
    /\ running = {}
    /\ jobs = <<>>
    /\ future = <<>>
    /\ out = <<>>
    /\ n_fit = 0
    /\ results = <<>>
    /\ best_index_ = 0
    /\ cv_results_ = <<>>
    /\ table = <<>>

\* ======================================================================
\* Operations
\* ======================================================================
\* GridSearchCV(model, param_grid=param_grid, n_jobs=2, cv=2): the constructor
\* checks the grid.
Construct ==
    /\ pc = "start"
    /\ IF BadParamGrid(param_grid)
       THEN pc' = "error" /\ raised' = "ValueError"
       ELSE pc' = "constructed" /\ UNCHANGED raised
    /\ UNCHANGED <<inputs, candidates, folds, next_task, running, jobs, future,
                   out, n_fit, results, best_index_, cv_results_, table, run, first>>

\* fit, up to the first dispatch: check_cv builds the splitter, the candidates
\* are listed, and product() consumes cv.split before any task is run.
FitBegin ==
    /\ pc = "constructed"
    /\ IF BadNSplits(cv) \/ BadSplit(y, cv)
       THEN /\ pc' = "error"
            /\ raised' = "ValueError"
            /\ UNCHANGED <<candidates, folds>>
       ELSE /\ candidates' = ParameterGrid(param_grid)
            /\ folds' = Split(y, cv)
            /\ pc' = "eval"
            /\ UNCHANGED raised
    /\ UNCHANGED <<inputs, next_task, running, jobs, future, out, n_fit,
                   results, best_index_, cv_results_, table, run, first>>

\* A free worker takes the next task, in the order of the task iterator.
Dispatch ==
    /\ pc = "eval"
    /\ next_task <= NTasks
    /\ Cardinality(running) < n_jobs
    /\ running' = running \cup {next_task}
    /\ jobs' = Append(jobs, next_task)
    /\ next_task' = next_task + 1
    /\ UNCHANGED <<inputs, pc, raised, candidates, folds, future, out, n_fit,
                   results, best_index_, cv_results_, table, run, first>>

\* _fit_and_score fitting the estimator a second time for every evaluation.
CompleteFittingTwice(t) ==
    /\ pc = "eval"
    /\ t \in running
    /\ running' = running \ {t}
    /\ future' = (t :> oracle[t]) @@ future
    /\ n_fit' = n_fit + 2
    /\ UNCHANGED <<inputs, pc, raised, candidates, folds, next_task, jobs, out,
                   results, best_index_, cv_results_, table, run, first>>

\* _fit_and_score with error_score="raise": a fit that raises ends the search.
CompleteRaising(t) ==
    /\ pc = "eval"
    /\ t \in running
    /\ running' = running \ {t}
    /\ n_fit' = n_fit + 1
    /\ IF IsNaN(oracle[t])
       THEN pc' = "error" /\ raised' = "FitError" /\ UNCHANGED future
       ELSE future' = (t :> oracle[t]) @@ future /\ UNCHANGED <<pc, raised>>
    /\ UNCHANGED <<inputs, candidates, folds, next_task, jobs, out,
                   results, best_index_, cv_results_, table, run, first>>

\* _fit_and_score ends on a worker: the estimator was fitted once; a fit that
\* raised is caught and scored error_score (NaN).
Complete(t) ==
    /\ pc = "eval"
    /\ t \in running
    /\ running' = running \ {t}
    /\ future' = (t :> oracle[t]) @@ future
    /\ n_fit' = n_fit + 1
    /\ UNCHANGED <<inputs, pc, raised, candidates, folds, next_task, jobs, out,
                   results, best_index_, cv_results_, table, run, first>>

\* Results taken in completion order: the first dispatched job that has finished.
RetrieveFirstDone(js, fut) ==
    IF \E i \in DOMAIN js : js[i] \in DOMAIN fut
    THEN CHOOSE i \in DOMAIN js :
            /\ js[i] \in DOMAIN fut
            /\ \A j \in 1..(i - 1) : js[j] \notin DOMAIN fut
    ELSE 1

\* Results taken from the newest dispatched job (a stack instead of a queue).
RetrieveNewest(js, fut) == Len(js)

\* Parallel.retrieve waits for the oldest dispatched job.
RetrievePos(js, fut) == 1

Remove(s, i) == SubSeq(s, 1, i - 1) \o SubSeq(s, i + 1, Len(s))

\* Parallel.retrieve: the result of the job waited for is appended to the output.
Retrieve ==
    /\ pc = "eval"
    /\ jobs # <<>>
    /\ LET i == RetrievePos(jobs, future)
       IN  /\ jobs[i] \in DOMAIN future
           /\ out' = Append(out, future[jobs[i]])
           /\ jobs' = Remove(jobs, i)
           /\ future' = [u \in (DOMAIN future) \ {jobs[i]} |-> future[u]]
    /\ UNCHANGED <<inputs, pc, raised, candidates, folds, next_task, running,
                   n_fit, results, best_index_, cv_results_, table, run, first>>

\* Parallel has returned every result: the results are formatted and the best
\* candidate is chosen.
Format ==
    /\ pc = "eval"
    /\ next_task > NTasks
    /\ Len(out) = NTasks
    /\ results' = FormatResults(candidates, Len(folds), out)
    /\ best_index_' = BestIndex(results')
    /\ pc' = "refit"
    /\ UNCHANGED <<inputs, raised, candidates, folds, next_task, running, jobs,
                   future, out, n_fit, cv_results_, table, run, first>>

\* refit=True: the best candidate is fitted on the whole training set; then fit
\* stores cv_results_ and returns.  A refit that raises ends fit.
Refit ==
    /\ pc = "refit"
    /\ n_fit' = n_fit + 1
    /\ IF refit_ok
       THEN pc' = "done" /\ cv_results_' = results /\ UNCHANGED raised
       ELSE pc' = "error" /\ raised' = "FitError" /\ UNCHANGED cv_results_
    /\ UNCHANGED <<inputs, candidates, folds, next_task, running, jobs, future,
                   out, results, best_index_, table, run, first>>

\* pd.DataFrame(cv_results_).sort_values("mean_test_score", ascending=False)
SortValues ==
    /\ pc = "done"
    /\ table' \in SortedOrders(cv_results_, DOMAIN cv_results_)
    /\ pc' = "reported"
    /\ UNCHANGED <<inputs, raised, candidates, folds, next_task, running, jobs,
                   future, out, n_fit, results, best_index_, cv_results_, run, first>>

Next ==
    \/ Construct
    \/ FitBegin
    \/ Dispatch
    \/ \E t \in running : Complete(t)
    \/ Retrieve
    \/ Format
    \/ Refit
    \/ SortValues

\* ======================================================================
\* Inputs
\* ======================================================================
Outcomes == {NaN} \cup {Num(s) : s \in 0..MaxScore}

ValueSeqs == {[i \in 1..m |-> i] : m \in 0..MaxVals}

Grids == UNION {[1..n -> ValueSeqs] : n \in 0..MaxParams}

Runnable(g, k, lab) == ~BadParamGrid(g) /\ ~BadNSplits(k) /\ ~BadSplit(lab, k)

\* Small inputs of every shape; a search that gets to run has at most MaxTasks
\* evaluations.
InitSmall ==
    /\ param_grid \in Grids
    /\ cv \in 0..MaxCv
    /\ y \in Labelings(MaxSamples)
    /\ Runnable(param_grid, cv, y) => ProductLen(param_grid) * cv <= MaxTasks
    /\ oracle \in IF Runnable(param_grid, cv, y)
                  THEN [1..(ProductLen(param_grid) * cv) -> Outcomes]
                  ELSE {<<>>}
    /\ refit_ok \in IF Runnable(param_grid, cv, y) THEN BOOLEAN ELSE {TRUE}

\* Outcomes for the notebook's own grid: the scores rise or fall with the
\* candidate's position, modulo NotebookModulus, and at most one evaluation
\* (the first or the last) fails.
NotebookOracles(n) ==
    {[t \in 1..n |->
        IF t = bad THEN NaN
        ELSE Num((((t - 1) \div cv_notebook) + 1) * m % NotebookModulus)] :
            m \in {1, NotebookModulus - 1}, bad \in {0, 1, n}}

\* The call of the notebook: its param_grid and cv=2, on the smallest training
\* sets that cv=2 accepts.
InitNotebook ==
    /\ param_grid = param_grid_notebook
    /\ cv = cv_notebook
    /\ y \in {lab \in [1..cv_notebook -> {0, 1}] : ~BadSplit(lab, cv_notebook)}
    /\ oracle \in NotebookOracles(ProductLen(param_grid_notebook) * cv_notebook)
    /\ refit_ok = TRUE

Init ==
    /\ InitSmall \/ InitNotebook
    /\ Fresh
    /\ run = 1
    /\ first = <<>>

Spec == Init /\ [][Next]_vars

\* ----------------------------------------------------------------------
\* The search invoked twice on the same inputs.
\* ----------------------------------------------------------------------
Ended == pc \in {"reported", "error"}

\* What an invocation leaves behind: the outcome of fit and its attributes.
Snapshot ==
    [ended |-> IF pc = "error" THEN raised ELSE "returned",
     candidates |-> candidates, folds |-> folds, out |-> out,
     cv_results_ |-> cv_results_, best_index_ |-> best_index_]

Reinvoke ==
    /\ Ended
    /\ run = 1
    /\ first' = Snapshot
    /\ run' = 2
    /\ pc' = "start"
    /\ raised' = "none"
    /\ candidates' = <<>>
    /\ folds' = <<>>
    /\ next_task' = 1
    /\ running' = {}
    /\ jobs' = <<>>
    /\ future' = <<>>
    /\ out' = <<>>
    /\ n_fit' = 0
    /\ results' = <<>>
    /\ best_index_' = 0
    /\ cv_results_' = <<>>
    /\ table' = <<>>
    /\ UNCHANGED inputs

InitTwice ==
    /\ InitSmall
    /\ Fresh
    /\ run = 1
    /\ first = <<>>

NextTwice == Next \/ Reinvoke

SpecTwice == InitTwice /\ [][NextTwice]_vars

\* ----------------------------------------------------------------------
\* The fold split alone: construction and the start of fit, over larger
\* training sets and fold counts, for the grid with no parameter.
\* ----------------------------------------------------------------------
InitSplit ==
    /\ param_grid = <<>>
    /\ cv \in 0..MaxSplitCv
    /\ y \in Labelings(MaxSplitSamples)
    /\ oracle = <<>>
    /\ refit_ok = TRUE
    /\ Fresh
    /\ run = 1
    /\ first = <<>>

NextSplit == Construct \/ FitBegin

SpecSplit == InitSplit /\ [][NextSplit]_vars

\* ----------------------------------------------------------------------
\* Formatting, selection and reporting alone: the search is taken up where
\* Parallel has returned every outcome, for one parameter with up to
\* MaxRankCand values and cv=2.
\* ----------------------------------------------------------------------
RankOutcomes == {NaN} \cup {Num(s) : s \in 0..MaxRankScore}

InitRank ==
    /\ \E n \in 1..MaxRankCand : param_grid = << [i \in 1..n |-> i] >>
    /\ cv = cv_notebook
    /\ y = [i \in 1..cv_notebook |-> 0]
    /\ oracle \in [1..(ProductLen(param_grid) * cv) -> RankOutcomes]
    /\ refit_ok = TRUE
    /\ pc = "eval"
    /\ raised = "none"
    /\ candidates = ParameterGrid(param_grid)
    /\ folds = Split(y, cv)
    /\ next_task = Len(oracle) + 1
    /\ running = {}
    /\ jobs = <<>>
    /\ future = <<>>
    /\ out = oracle
    /\ n_fit = Len(oracle)
    /\ results = <<>>
    /\ best_index_ = 0
    /\ cv_results_ = <<>>
    /\ table = <<>>
    /\ run = 1
    /\ first = <<>>

NextRank == Format \/ Refit \/ SortValues

SpecRank == InitRank /\ [][NextRank]_vars

\* ======================================================================
\* Properties
\* ======================================================================
Evaluating == pc \in {"eval", "refit", "done", "reported"}

Scored == pc \in {"refit", "done", "reported"}

Returned == pc \in {"done", "reported"}

ValuesOf(seq) == {seq[i] : i \in DOMAIN seq}

MeanAt(res, c) == res[c].mean_test_score

RankAt(res, c) == res[c].rank_test_score

SomeMeanDefined(res) == \E c \in DOMAIN res : ~IsNaN(MeanAt(res, c))

\* A (candidate, fold) evaluation whose fit raised has finished.
SomeFitFailed ==
    \E t \in 1..(next_task - 1) : t \notin running /\ IsNaN(oracle[t])

\* C1: for a non-empty grid the search enumerates exactly one candidate per
\* element of the Cartesian product of the value sequences, so the number of
\* candidates, and of score records returned, is the product of the sequence
\* lengths; each record holds one score per fold; the notebook's grid gives 20.
C1_CandidateCount ==
    (Evaluating /\ param_grid # <<>>) =>
        /\ Len(candidates) = ProductLen(param_grid)
        /\ \A i, j \in DOMAIN candidates : i # j => candidates[i] # candidates[j]
        /\ \A i \in DOMAIN candidates :
              /\ DOMAIN candidates[i] = DOMAIN param_grid
              /\ \A p \in DOMAIN param_grid : candidates[i][p] \in ValuesOf(param_grid[p])
        /\ Returned =>
              /\ Len(cv_results_) = ProductLen(param_grid)
              /\ \A c \in DOMAIN cv_results_ : Len(cv_results_[c].split_test_score) = cv
        /\ param_grid = param_grid_notebook => Len(candidates) = 20

C1_Witness ==
    /\ Returned
    /\ param_grid = param_grid_notebook
    /\ Len(cv_results_) = 20

\* C2 as stated: the winner's mean is >= the mean of every candidate of the
\* result, and no candidate enumerated before it has an equal mean.
C2_WinnerAboveAll ==
    Returned =>
        /\ \A d \in DOMAIN cv_results_ :
              GreaterEq(MeanAt(cv_results_, best_index_), MeanAt(cv_results_, d))
        /\ \A d \in 1..(best_index_ - 1) :
              ~FloatEq(MeanAt(cv_results_, d), MeanAt(cv_results_, best_index_))

\* C2 amended: when at least one candidate has a defined mean (none of its
\* fold fits failed), the winner is the earliest candidate among those whose
\* defined mean is maximal; candidates with an undefined mean never win.
C2_WinnerAmongDefined ==
    (Returned /\ SomeMeanDefined(cv_results_)) =>
        /\ ~IsNaN(MeanAt(cv_results_, best_index_))
        /\ \A d \in DOMAIN cv_results_ :
              ~IsNaN(MeanAt(cv_results_, d)) =>
                  MeanAt(cv_results_, best_index_)[1] >= MeanAt(cv_results_, d)[1]
        /\ \A d \in 1..(best_index_ - 1) :
              MeanAt(cv_results_, d) # MeanAt(cv_results_, best_index_)

C2_Witness ==
    /\ Returned
    /\ best_index_ = 2
    /\ Len(cv_results_) = 3
    /\ IsNaN(MeanAt(cv_results_, 1))
    /\ FloatEq(MeanAt(cv_results_, 2), MeanAt(cv_results_, 3))

\* C3: a search that completes has made one fit per (candidate, fold) pair
\* and one refit, candidates x folds + 1 in all, and the refit is made only
\* after every evaluation has finished and been collected.
C3_FitCount ==
    /\ pc = "eval" => n_fit = (next_task - 1) - Cardinality(running)
    /\ pc = "refit" => n_fit = Len(candidates) * cv
    /\ Returned => n_fit = Len(candidates) * cv + 1
    /\ (Evaluating /\ n_fit > Len(candidates) * cv) =>
          /\ Returned
          /\ running = {}
          /\ Len(out) = Len(candidates) * cv

C3_Witness ==
    /\ Returned
    /\ Len(candidates) = 2
    /\ cv = 2
    /\ n_fit = 5

\* The grid has no parameter with a candidate value.
EmptyGrid(g) == \A p \in DOMAIN g : Len(g[p]) = 0

NeverRuns ==
    /\ pc \in {"start", "constructed", "error"}
    /\ pc = "error" => raised = "ValueError"
    /\ n_fit = 0
    /\ cv_results_ = <<>>

\* C4 as stated: with an empty grid, a fold count below 2 or a fold count
\* above the number of training samples, the search never gets to fit
\* anything: it ends in a configuration error, with no fit made and no result.
C4_InvalidNeverRuns ==
    (EmptyGrid(param_grid) \/ cv < 2 \/ cv > Len(y)) => NeverRuns

\* C4 amended: the same for a grid that gives some parameter no value, a fold
\* count below 2 or a fold count above the number of training samples; the
\* grid with no parameter at all is not rejected.
C4_RejectedNeverRuns ==
    ((\E p \in DOMAIN param_grid : Len(param_grid[p]) = 0) \/ cv < 2 \/ cv > Len(y))
        => NeverRuns

C4_Witness ==
    /\ pc = "error"
    /\ raised = "ValueError"
    /\ param_grid # <<>>
    /\ ~EmptyGrid(param_grid)
    /\ cv >= 2
    /\ cv > Len(y)
    /\ n_fit = 0

\* C5: whatever the interleaving and completion order of the workers, the
\* collected outcomes are in task order, each record holds its own candidate's
\* parameters and fold scores, in enumeration order, and the winner is the one
\* a sequential pass over the same outcomes selects.
C5_OrderPreserved ==
    /\ \A t \in DOMAIN out : out[t] = oracle[t]
    /\ Scored =>
          /\ Len(results) = ProductLen(param_grid)
          /\ \A c \in DOMAIN results :
                /\ results[c].params = ParameterGrid(param_grid)[c]
                /\ \A f \in 1..cv :
                      results[c].split_test_score[f] = oracle[(c - 1) * cv + f]
          /\ best_index_ = BestIndex(FormatResults(ParameterGrid(param_grid), cv, oracle))

\* A later task has finished while an earlier one, of another outcome, still runs.
C5_Witness ==
    /\ pc = "eval"
    /\ \E a \in running : \E b \in DOMAIN future :
          /\ a < b
          /\ oracle[a] # oracle[b]
          /\ CandOf(a) # CandOf(b)

\* C6: two invocations on the same inputs end the same way: the same
\* candidates in the same order, the same folds, the same fold outcomes in the
\* same places, the same records and the same winner.
C6_Deterministic ==
    run = 2 =>
        /\ (Evaluating /\ Len(candidates) > 0) =>
              /\ first.ended = "returned" \/ first.ended = "FitError"
              /\ candidates = first.candidates
              /\ folds = first.folds
        /\ Ended => Snapshot = first

C6_Witness ==
    /\ run = 2
    /\ pc = "reported"
    /\ Len(candidates) = 2
    /\ \E a, b \in DOMAIN out : out[a] # out[b]
    /\ Snapshot = first

C8_StrictRank ==
    pc = "reported" =>
        /\ \A a, b \in DOMAIN cv_results_ :
              a # b => RankAt(cv_results_, a) # RankAt(cv_results_, b)
        /\ \A a, b \in DOMAIN cv_results_ :
              Greater(MeanAt(cv_results_, a), MeanAt(cv_results_, b))
                  => RankAt(cv_results_, a) < RankAt(cv_results_, b)
        /\ \A a, b \in DOMAIN cv_results_ :
              (a < b /\ FloatEq(MeanAt(cv_results_, a), MeanAt(cv_results_, b)))
                  => RankAt(cv_results_, a) < RankAt(cv_results_, b)
        /\ RankAt(cv_results_, best_index_) = 1
        /\ \A d \in DOMAIN cv_results_ :
              GreaterEq(MeanAt(cv_results_, best_index_), MeanAt(cv_results_, d))

\* C8 amended: rank is consistent with descending mean but not strict: a
\* larger mean has a smaller rank, equal means share one rank (one more than
\* the number of larger means), undefined means rank after every defined one;
\* when some mean is defined the winner is the first-enumerated candidate of
\* rank 1 and its mean is the largest defined mean, and the sorted table
\* starts with a row of rank 1 and lists every candidate once.
C8_WeakRank ==
    pc = "reported" =>
        /\ \A a, b \in DOMAIN cv_results_ :
              Greater(MeanAt(cv_results_, a), MeanAt(cv_results_, b))
                  => RankAt(cv_results_, a) < RankAt(cv_results_, b)
        /\ \A a, b \in DOMAIN cv_results_ :
              FloatEq(MeanAt(cv_results_, a), MeanAt(cv_results_, b))
                  => RankAt(cv_results_, a) = RankAt(cv_results_, b)
        /\ \A a, b \in DOMAIN cv_results_ :
              (~IsNaN(MeanAt(cv_results_, a)) /\ IsNaN(MeanAt(cv_results_, b)))
                  => RankAt(cv_results_, a) < RankAt(cv_results_, b)
        /\ \A a \in DOMAIN cv_results_ :
              ~IsNaN(MeanAt(cv_results_, a)) =>
                  RankAt(cv_results_, a) =
                      1 + Cardinality({b \in DOMAIN cv_results_ :
                            Greater(MeanAt(cv_results_, b), MeanAt(cv_results_, a))})
        /\ SomeMeanDefined(cv_results_) =>
              /\ RankAt(cv_results_, best_index_) = 1
              /\ \A d \in 1..(best_index_ - 1) : RankAt(cv_results_, d) # 1
              /\ \A d \in DOMAIN cv_results_ :
                    ~IsNaN(MeanAt(cv_results_, d)) =>
                        GreaterEq(MeanAt(cv_results_, best_index_), MeanAt(cv_results_, d))
              /\ RankAt(cv_results_, table[1]) = 1
        /\ Len(table) = Len(cv_results_)
        /\ ValuesOf(table) = DOMAIN cv_results_

\* Two candidates tie for the best mean and the table lists the later one first.
C8_Witness ==
    /\ pc = "reported"
    /\ Len(cv_results_) = 3
    /\ best_index_ = 1
    /\ RankAt(cv_results_, 1) = 1
    /\ RankAt(cv_results_, 3) = 1
    /\ RankAt(cv_results_, 2) = 3
    /\ table[1] = 3

\* C9: for the notebook's param_grid the search creates and tests 4 x 4 = 16
\* parameter combinations.
C9_SixteenCombinations ==
    (Evaluating /\ param_grid = param_grid_notebook) =>
        /\ Len(candidates) = 16
        /\ Returned => Len(cv_results_) = 16

\* C10: the split for fold count k has k folds whose test sets partition the
\* training set: every sample is in the test set of exactly one fold, and
\* each fold's train set is the complement of its test set.
C10_FoldsPartition ==
    Evaluating =>
        /\ Len(folds) = cv
        /\ \A i \in 1..Len(y) :
              Cardinality({f \in DOMAIN folds : i \in folds[f].test}) = 1
        /\ \A f \in DOMAIN folds :
              /\ folds[f].test \subseteq 1..Len(y)
              /\ folds[f].train = (1..Len(y)) \ folds[f].test
              /\ folds[f].train \cap folds[f].test = {}

C10_Witness ==
    /\ pc = "eval"
    /\ cv = 3
    /\ Len(y) = 5
    /\ ClassesOf(y) = {0, 1}
    /\ \A f \in DOMAIN folds : folds[f].test # {} /\ folds[f].train # {}

=============================================================================
